---- MODULE Spec2Model ----
(***************************************************************************)
(* gbs: an interactive terminal branch switcher (src/src/main.rs).         *)
(* The model follows main(): initial load, terminal setup, the run_app     *)
(* loop (one action per match arm of the key dispatch), teardown and the   *)
(* final switch / error report.  Text is a sequence of one-character       *)
(* strings; Option values are <<>> (None) and <<x>> (Some(x)).             *)
(***************************************************************************)
EXTENDS Integers, Sequences, FiniteSets, TLC

(***************************************************************************)
(* Bounds of the model.                                                    *)
(***************************************************************************)
\* the most lines one run of `git for-each-ref` prints
MaxLines == 3
\* the longest text given to the parser on its own
MaxText == 5

(***************************************************************************)
(* Option helpers.                                                         *)
(***************************************************************************)
None == <<>>
Some(x) == <<x>>
IsSome(o) == o # <<>>
Unwrap(o) == o[1]

(***************************************************************************)
(* usize arithmetic.  The wrap-around value of a usize is modelled at the  *)
(* largest integer TLC represents.                                         *)
(***************************************************************************)
UsizeMax == 2147483647

\* a - b on usize: None is the overflow panic of a build with overflow
\* checks, Some(wrapped) the result of a build without them.
UsizeSub(a, b, overflow_checks) ==
    IF a >= b THEN Some(a - b)
    ELSE IF overflow_checks THEN None
    ELSE Some(UsizeMax - (b - a) + 1)

(***************************************************************************)
(* Text helpers (str::contains, str::split, str::lines, str::trim).        *)
(***************************************************************************)
Contains(hay, needle) ==
    \E i \in 0..(Len(hay) - Len(needle)) :
        SubSeq(hay, i + 1, i + Len(needle)) = needle

RECURSIVE Split(_, _)
Split(s, d) ==
    IF \A i \in 1..Len(s) : s[i] # d
    THEN <<s>>
    ELSE LET i == CHOOSE i \in 1..Len(s) :
                      s[i] = d /\ \A j \in 1..(i - 1) : s[j] # d
         IN  <<SubSeq(s, 1, i - 1)>> \o Split(SubSeq(s, i + 1, Len(s)), d)

Whitespace == {" ", "\t", "\r", "\n"}

TrimIsEmpty(l) == \A i \in 1..Len(l) : l[i] \in Whitespace

StripCr(l) ==
    IF Len(l) > 0 /\ l[Len(l)] = "\r" THEN SubSeq(l, 1, Len(l) - 1) ELSE l

\* str::lines: split at "\n", no final empty line; the "\r" of a "\r\n"
\* ending is removed, a "\r" that ends the text is kept
Lines(s) ==
    LET raw  == Split(s, "\n")
        kept == IF raw[Len(raw)] = <<>> THEN SubSeq(raw, 1, Len(raw) - 1) ELSE raw
    IN  [i \in 1..Len(kept) |->
            IF i < Len(raw) THEN StripCr(kept[i]) ELSE kept[i]]

(***************************************************************************)
(* load_branches: the parser of the Lister's output.                       *)
(***************************************************************************)
NextOrEmpty(parts, i) == IF i <= Len(parts) THEN parts[i] ELSE <<>>

HeadMarker == <<"*">>

\* slip: the head flag is read from the second field
ParseLineHeadFromSha(line) ==
    LET parts     == Split(line, "|")
        name      == NextOrEmpty(parts, 1)
        sha       == NextOrEmpty(parts, 2)
    IN  [name |-> name, short_sha |-> sha, is_current |-> (sha = HeadMarker)]

ParseLine(line) ==
    LET parts     == Split(line, "|")
        name      == NextOrEmpty(parts, 1)
        sha       == NextOrEmpty(parts, 2)
        head_flag == NextOrEmpty(parts, 3)
    IN  [name |-> name, short_sha |-> sha, is_current |-> (head_flag = HeadMarker)]

NonBlank(l) == ~TrimIsEmpty(l)

ParseBranches(stdout) ==
    LET ls == SelectSeq(Lines(stdout), NonBlank)
    IN  [i \in 1..Len(ls) |-> ParseLine(ls[i])]

\* what one run of the Lister's subprocess produces: it could not be
\* spawned, it exited with a failure, its output is not UTF-8, or text.
LoadBranches(run) ==
    IF ~run.spawned THEN [ok |-> FALSE, err |-> "spawn git for-each-ref", branches |-> <<>>]
    ELSE IF ~run.success THEN [ok |-> FALSE, err |-> "git for-each-ref failed", branches |-> <<>>]
    ELSE IF ~run.utf8 THEN [ok |-> FALSE, err |-> "utf8", branches |-> <<>>]
    ELSE [ok |-> TRUE, err |-> "", branches |-> ParseBranches(run.stdout)]

(***************************************************************************)
(* The Lister outputs the model draws from.                                *)
(***************************************************************************)
LineMain    == <<"m", "|", "a", "|", "*">>
LineFeature == <<"f", "|", "b", "|">>
SampleLines == {LineMain, LineFeature}

RECURSIVE JoinLines(_)
JoinLines(ls) ==
    IF ls = <<>> THEN <<>> ELSE Head(ls) \o <<"\n">> \o JoinLines(Tail(ls))

GitListOutputs ==
    { JoinLines(ls) : ls \in UNION { [1..n -> SampleLines] : n \in 0..MaxLines } }

ListerRuns ==
    { [spawned |-> FALSE, success |-> FALSE, utf8 |-> FALSE, stdout |-> <<>>],
      [spawned |-> TRUE,  success |-> FALSE, utf8 |-> TRUE,  stdout |-> <<>>],
      [spawned |-> TRUE,  success |-> TRUE,  utf8 |-> FALSE, stdout |-> <<>>] }
    \cup { [spawned |-> TRUE, success |-> TRUE, utf8 |-> TRUE, stdout |-> o] :
             o \in GitListOutputs }

ListerResults == { LoadBranches(r) : r \in ListerRuns }

\* load_branches on each of these runs
ListerLoads == [r \in ListerRuns |-> LoadBranches(r)]

(***************************************************************************)
(* delete_branch.                                                          *)
(***************************************************************************)
NotFullyMerged ==
    <<"n", "o", "t", " ", "f", "u", "l", "l", "y", " ", "m", "e", "r", "g", "e", "d">>

TextUnmerged ==
    <<"e", "r", "r", "o", "r", ":", " ", "'", "f", "'", " ", "i", "s", " ">>
    \o NotFullyMerged \o <<".">>
TextNotFound ==
    <<"e", "r", "r", "o", "r", ":", " ", "'", "f", "'", " ", "n", "o", "t", " ",
      "f", "o", "u", "n", "d">>
TextNearMiss ==
    <<"n", "o", "t", " ", "f", "u", "l", "l", "y", " ", "m", "e", "r", "g", "e">>

StderrTexts == {<<>>, TextUnmerged, NotFullyMerged, TextNotFound, TextNearMiss}

\* the outcomes of one `git branch -d|-D` subprocess
GitRuns ==
    { [spawned |-> FALSE, success |-> FALSE, stderr |-> <<>>],
      [spawned |-> TRUE,  success |-> TRUE,  stderr |-> <<>>] }
    \cup { [spawned |-> TRUE, success |-> FALSE, stderr |-> t] : t \in StderrTexts }

ForceRuns ==
    { [spawned |-> FALSE, success |-> FALSE, stderr |-> <<>>],
      [spawned |-> TRUE,  success |-> TRUE,  stderr |-> <<>>],
      [spawned |-> TRUE,  success |-> FALSE, stderr |-> TextNotFound] }

\* slip: every failure of the safe delete is retried with the forced delete
RetriesAlways(output) == TRUE

\* whether the safe delete's failure is retried with the forced delete
RetriesWithForce(output) == Contains(output.stderr, NotFullyMerged)

\* delete_branch(name) when the safe delete runs as `safe` and the forced
\* delete, if attempted, as `force`.  ops lists the subprocesses started.
DeleteBranch(name, safe, force) ==
    LET d == [op |-> "branch -d", name |-> name]
        D == [op |-> "branch -D", name |-> name]
    IN  IF ~safe.spawned THEN [ok |-> FALSE, err |-> "spawn git branch -d", ops |-> <<d>>]
        ELSE IF safe.success THEN [ok |-> TRUE, err |-> "", ops |-> <<d>>]
        ELSE IF RetriesWithForce(safe) THEN
            IF ~force.spawned THEN [ok |-> FALSE, err |-> "spawn git branch -D", ops |-> <<d, D>>]
            ELSE IF ~force.success
                 THEN [ok |-> FALSE, err |-> "git branch -D failed", ops |-> <<d, D>>]
            ELSE [ok |-> TRUE, err |-> "", ops |-> <<d, D>>]
        ELSE [ok |-> FALSE, err |-> "git branch -d failed", ops |-> <<d>>]

(***************************************************************************)
(* Input events (crossterm Event / KeyEvent).                              *)
(***************************************************************************)
KeyCodes ==
    {"y", "Y", "n", "N", "Esc", "q", "j", "k", "Down", "Up", "Enter", "D", "d"}
KeyKinds == {"Press", "Repeat", "Release"}

KeyEvents   == [type : {"key"}, kind : KeyKinds, code : KeyCodes]
NoEvent     == [type |-> "timeout", kind |-> "-", code |-> "-"]
ResizeEvent == [type |-> "resize", kind |-> "-", code |-> "-"]

\* slip: Enter also confirms the dialog
IsConfirmKeyWithEnter(code) == code \in {"y", "Y", "Enter"}

\* slip: Esc does not cancel the dialog
IsCancelKeyNoEsc(code) == code \in {"n", "N"}

\* slip: Esc does not quit
IsQuitKeyNoEsc(code) == code = "q"

\* slip: 'd' requests a delete as 'D' does
IsDeleteKeyAnyCase(code) == code \in {"D", "d"}

\* the patterns of the two matches on key.code
IsConfirmKey(code) == code \in {"y", "Y"}
IsCancelKey(code)  == code \in {"n", "N", "Esc"}
IsQuitKey(code)    == code \in {"q", "Esc"}
IsDownKey(code)    == code \in {"Down", "j"}
IsUpKey(code)      == code \in {"Up", "k"}
IsEnterKey(code)   == code = "Enter"
IsDeleteKey(code)  == code = "D"

\* slip: key releases are dispatched too
ActsOnRelease(e) == e.type = "key"

\* a key event that reaches the dispatch
Acts(e) == e.type = "key" /\ e.kind # "Release"

\* the outcomes of `git switch`: not spawned, exit code, killed by a signal
SwitchCodes == {1, 128}
SwitchRuns ==
    { [spawned |-> FALSE, code |-> None], [spawned |-> TRUE, code |-> None],
      [spawned |-> TRUE, code |-> Some(0)] }
    \cup { [spawned |-> TRUE, code |-> Some(c)] : c \in SwitchCodes }

(***************************************************************************)
(* State.                                                                  *)
(***************************************************************************)
VARIABLES
    pc,           \* where main() is
    branches,     \* app.branches
    selected,     \* app.selected
    mode,         \* app.mode
    raw_mode,     \* the terminal is in raw mode
    alt_screen,   \* the terminal shows the alternate screen
    res,          \* what run_app returned
    exit_code,    \* the process exit code, once set
    stderr,       \* the messages written to standard error
    switch_log,   \* the names `git switch` was run with
    panicked,     \* the process panicked
    event,        \* the event of the last loop cycle
    dialog,       \* the name in the confirmation dialog of the last frame
    ops,          \* the subprocesses the last step started
    delete_call,  \* the delete_branch call of the last step, if any
    list_call,    \* what load_branches returned in the last step, if called
    list_run      \* the subprocess run load_branches read in the last step

vars == <<pc, branches, selected, mode, raw_mode, alt_screen, res, exit_code,
          stderr, switch_log, panicked, event, dialog, ops, delete_call, list_call,
          list_run>>

app      == <<branches, selected, mode>>
terminal == <<raw_mode, alt_screen>>
process  == <<exit_code, stderr, switch_log, panicked>>
step     == <<event, dialog, ops, delete_call, list_call, list_run>>

Pending    == [kind |-> "pending", idx |-> 0, err |-> ""]
OkNone     == [kind |-> "ok_none", idx |-> 0, err |-> ""]
OkSome(i)  == [kind |-> "ok_some", idx |-> i, err |-> ""]
Err(e)     == [kind |-> "err", idx |-> 0, err |-> e]

ListOp == [op |-> "for-each-ref", name |-> <<>>]

Init ==
    /\ pc = "load"
    /\ branches = <<>>
    /\ selected = 0
    /\ mode = "Normal"
    /\ raw_mode = FALSE
    /\ alt_screen = FALSE
    /\ res = Pending
    /\ exit_code = None
    /\ stderr = <<>>
    /\ switch_log = <<>>
    /\ panicked = FALSE
    /\ event = NoEvent
    /\ dialog = None
    /\ ops = <<>>
    /\ delete_call = None
    /\ list_call = None
    /\ list_run = None

(***************************************************************************)
(* How the process ends.                                                   *)
(***************************************************************************)
\* main returns Err(e): the runtime prints it and the exit code is 1
MainReturnsErr(e) ==
    /\ pc' = "done"
    /\ stderr' = Append(stderr, <<"Error: ", e>>)
    /\ exit_code' = Some(1)

\* main returns Ok(())
MainReturnsOk ==
    /\ pc' = "done"
    /\ exit_code' = Some(0)

\* std::process::exit(code)
ProcessExit(code) ==
    /\ pc' = "done"
    /\ exit_code' = Some(code)

\* a panic unwinds main: message on stderr, exit code 101
Panics(msg) ==
    /\ pc' = "done"
    /\ panicked' = TRUE
    /\ stderr' = Append(stderr, <<"panicked: ", msg>>)
    /\ exit_code' = Some(101)

(***************************************************************************)
(* main, before the loop.                                                  *)
(***************************************************************************)
\* slip: an empty initial list starts the session
MainLoadOfNoEmptyCheck(runs) ==
    /\ pc = "load"
    /\ \E run \in runs : LET lr == LoadBranches(run) IN
        /\ ops' = <<ListOp>>
        /\ list_run' = Some(run)
        /\ list_call' = Some(lr)
        /\ IF ~lr.ok
           THEN /\ MainReturnsErr(lr.err)
                /\ UNCHANGED <<app, switch_log, panicked>>
           ELSE /\ branches' = lr.branches
                /\ selected' = 0
                /\ mode' = "Normal"
                /\ pc' = "enable_raw"
                /\ UNCHANGED process
    /\ UNCHANGED <<terminal, res, event, dialog, delete_call>>

\* main up to the construction of App, the Lister's subprocess running as
\* one of runs
MainLoadOf(runs) ==
    /\ pc = "load"
    /\ \E run \in runs : LET lr == LoadBranches(run) IN
        /\ ops' = <<ListOp>>
        /\ list_run' = Some(run)
        /\ list_call' = Some(lr)
        /\ IF ~lr.ok
           THEN /\ MainReturnsErr(lr.err)
                /\ UNCHANGED <<app, switch_log, panicked>>
           ELSE IF lr.branches = <<>>
           THEN /\ stderr' = Append(stderr, <<"no local branches found">>)
                /\ MainReturnsOk
                /\ UNCHANGED <<app, switch_log, panicked>>
           ELSE /\ branches' = lr.branches
                /\ selected' = 0
                /\ mode' = "Normal"
                /\ pc' = "enable_raw"
                /\ UNCHANGED process
    /\ UNCHANGED <<terminal, res, event, dialog, delete_call>>

MainLoad == MainLoadOf(ListerRuns)

(***************************************************************************)
(* The parser on its own: main's load step on every text over a small      *)
(* alphabet.                                                               *)
(***************************************************************************)
ParseAlphabet == {"m", "|", "*", " ", "\n"}
ParseTexts == UNION { [1..n -> ParseAlphabet] : n \in 0..MaxText }
ParseRuns ==
    { [spawned |-> TRUE, success |-> TRUE, utf8 |-> TRUE, stdout |-> t] :
        t \in ParseTexts }

ParseLoad == MainLoadOf(ParseRuns)

ParseSpec == Init /\ [][ParseLoad]_vars

EnableRawMode ==
    /\ pc = "enable_raw"
    /\ \E ok \in BOOLEAN :
        IF ok
        THEN /\ raw_mode' = TRUE
             /\ pc' = "enter_alt"
             /\ UNCHANGED <<exit_code, stderr>>
        ELSE /\ MainReturnsErr("enable_raw_mode")
             /\ UNCHANGED raw_mode
    /\ UNCHANGED <<app, alt_screen, res, switch_log, panicked, step>>

EnterAlternateScreen ==
    /\ pc = "enter_alt"
    /\ \E ok \in BOOLEAN :
        IF ok
        THEN /\ alt_screen' = TRUE
             /\ pc' = "new_terminal"
             /\ UNCHANGED <<exit_code, stderr>>
        ELSE /\ MainReturnsErr("EnterAlternateScreen")
             /\ UNCHANGED alt_screen
    /\ UNCHANGED <<app, raw_mode, res, switch_log, panicked, step>>

NewTerminal ==
    /\ pc = "new_terminal"
    /\ \E ok \in BOOLEAN :
        IF ok
        THEN /\ pc' = "loop"
             /\ UNCHANGED <<exit_code, stderr>>
        ELSE MainReturnsErr("Terminal::new")
    /\ UNCHANGED <<app, terminal, res, switch_log, panicked, step>>

(***************************************************************************)
(* run_app: one action is one cycle of the loop (snapshot, draw, poll,     *)
(* dispatch).                                                              *)
(***************************************************************************)
\* the snapshot taken at the top of the cycle
selected_branch_name ==
    IF selected < Len(branches) THEN Some(branches[selected + 1].name) ELSE None

selected_is_current ==
    IF selected < Len(branches) THEN branches[selected + 1].is_current ELSE FALSE

\* terminal.draw: the popup is drawn in ConfirmDelete when a branch is selected
Draw ==
    dialog' = IF mode = "ConfirmDelete" THEN selected_branch_name ELSE None

\* run_app returns r
LoopReturns(r) ==
    /\ res' = r
    /\ pc' = "disable_raw"

\* a step that started no subprocess
NoSubprocess ==
    /\ ops' = <<>>
    /\ delete_call' = None
    /\ list_call' = None
    /\ list_run' = None

\* draw, poll or read fails: the error leaves the loop
LoopIoError ==
    /\ pc = "loop"
    /\ \E drawn \in BOOLEAN : IF drawn THEN Draw ELSE UNCHANGED dialog
    /\ LoopReturns(Err("io"))
    /\ NoSubprocess
    /\ UNCHANGED <<app, terminal, process, event>>

\* poll times out
LoopTimeout ==
    /\ pc = "loop"
    /\ Draw
    /\ event' = NoEvent
    /\ NoSubprocess
    /\ UNCHANGED <<pc, app, terminal, res, process>>

\* an event that is no key event
LoopNonKey ==
    /\ pc = "loop"
    /\ Draw
    /\ event' = ResizeEvent
    /\ NoSubprocess
    /\ UNCHANGED <<pc, app, terminal, res, process>>

\* a key release
LoopRelease(e) ==
    /\ pc = "loop"
    /\ e.type = "key" /\ e.kind = "Release"
    /\ Draw
    /\ event' = e
    /\ NoSubprocess
    /\ UNCHANGED <<pc, app, terminal, res, process>>

\* slip: the selection is adjusted only when it is beyond one past the end
ClampOffByOne(sel, len) == sel > len /\ sel > 0

\* slip: the selection is never adjusted
ClampNever(sel, len) == FALSE

\* the selection after a reload that left len branches; None is a panic
ClampNeeded(sel, len) == sel >= len /\ sel > 0

AdjustSelection(sel, len, overflow_checks) ==
    IF ClampNeeded(sel, len) THEN UsizeSub(len, 1, overflow_checks) ELSE Some(sel)

\* the forced delete runs only when delete_branch reaches it
ForceRunsFor(safe) ==
    IF safe.spawned /\ ~safe.success /\ RetriesWithForce(safe)
    THEN ForceRuns
    ELSE {[spawned |-> FALSE, success |-> FALSE, stderr |-> <<>>]}

\* slip: a failed delete reloads the list before leaving the loop
DeleteFailedReloads(r) ==
    \E run \in ListerRuns : LET lr == ListerLoads[run] IN
      /\ mode' = "Normal"
      /\ LoopReturns(Err("Failed to delete branch"))
      /\ ops' = Append(r.ops, ListOp)
      /\ list_run' = Some(run)
      /\ list_call' = Some(lr)
      /\ branches' = IF lr.ok THEN lr.branches ELSE branches
      /\ UNCHANGED <<selected, process>>

\* slip: a failed delete returns to Normal and the loop goes on
DeleteFailedContinues(r) ==
    /\ mode' = "Normal"
    /\ ops' = r.ops
    /\ list_call' = None
    /\ list_run' = None
    /\ UNCHANGED <<pc, res, branches, selected, process>>

\* delete_branch failed with r: back to Normal and out of the loop
DeleteFailed(r) ==
    /\ mode' = "Normal"
    /\ LoopReturns(Err("Failed to delete branch"))
    /\ ops' = r.ops
    /\ list_call' = None
    /\ list_run' = None
    /\ UNCHANGED <<branches, selected, process>>

\* delete_branch succeeded with r: reload, adjust the selection, leave the
\* loop when no branch is left
DeleteSucceeded(r) ==
    \E run \in ListerRuns : LET lr == ListerLoads[run] IN
      /\ ops' = Append(r.ops, ListOp)
      /\ list_run' = Some(run)
      /\ list_call' = Some(lr)
      /\ IF ~lr.ok
         THEN /\ LoopReturns(Err(lr.err))
              /\ UNCHANGED <<app, process>>
         ELSE /\ branches' = lr.branches
              /\ \E overflow_checks \in BOOLEAN :
                 LET adj == AdjustSelection(selected, Len(lr.branches), overflow_checks) IN
                 IF ~IsSome(adj)
                 THEN /\ Panics("attempt to subtract with overflow")
                      /\ UNCHANGED <<selected, mode, res, switch_log>>
                 ELSE /\ selected' = Unwrap(adj)
                      /\ UNCHANGED process
                      /\ IF lr.branches = <<>>
                         THEN /\ LoopReturns(OkNone)
                              /\ UNCHANGED mode
                         ELSE /\ mode' = "Normal"
                              /\ UNCHANGED <<pc, res>>

\* ConfirmDelete, 'y' | 'Y', a branch is selected
ConfirmYesDelete(name) ==
    \E safe \in GitRuns : \E force \in ForceRunsFor(safe) :
      LET r == DeleteBranch(name, safe, force) IN
      /\ delete_call' = Some([name |-> name, safe |-> safe,
                              force |-> IF Len(r.ops) > 1 THEN Some(force) ELSE None,
                              ok |-> r.ok])
      /\ IF ~r.ok THEN DeleteFailed(r) ELSE DeleteSucceeded(r)

ConfirmYes(e) ==
    /\ pc = "loop"
    /\ Acts(e) /\ mode = "ConfirmDelete" /\ IsConfirmKey(e.code)
    /\ Draw
    /\ event' = e
    /\ IF IsSome(selected_branch_name)
       THEN ConfirmYesDelete(Unwrap(selected_branch_name))
       ELSE /\ mode' = "Normal"
            /\ NoSubprocess
            /\ UNCHANGED <<pc, branches, selected, res, process>>
    /\ UNCHANGED terminal

\* ConfirmDelete, 'n' | 'N' | Esc
ConfirmCancel(e) ==
    /\ pc = "loop"
    /\ Acts(e) /\ mode = "ConfirmDelete" /\ IsCancelKey(e.code)
    /\ Draw
    /\ event' = e
    /\ mode' = "Normal"
    /\ NoSubprocess
    /\ UNCHANGED <<pc, branches, selected, terminal, res, process>>

\* slip: the navigation keys move the selection behind the dialog
ConfirmOtherNavigates(e) ==
    /\ pc = "loop"
    /\ Acts(e) /\ mode = "ConfirmDelete"
    /\ ~IsConfirmKey(e.code) /\ ~IsCancelKey(e.code)
    /\ Draw
    /\ event' = e
    /\ selected' = IF IsDownKey(e.code) /\ selected + 1 < Len(branches) THEN selected + 1
                   ELSE IF IsUpKey(e.code) /\ selected > 0 THEN selected - 1
                   ELSE selected
    /\ NoSubprocess
    /\ UNCHANGED <<pc, branches, mode, terminal, res, process>>

\* ConfirmDelete, any other key
ConfirmOther(e) ==
    /\ pc = "loop"
    /\ Acts(e) /\ mode = "ConfirmDelete"
    /\ ~IsConfirmKey(e.code) /\ ~IsCancelKey(e.code)
    /\ Draw
    /\ event' = e
    /\ NoSubprocess
    /\ UNCHANGED <<pc, app, terminal, res, process>>

\* Normal, 'q' | Esc
NormalQuit(e) ==
    /\ pc = "loop"
    /\ Acts(e) /\ mode # "ConfirmDelete" /\ IsQuitKey(e.code)
    /\ Draw
    /\ event' = e
    /\ LoopReturns(OkNone)
    /\ NoSubprocess
    /\ UNCHANGED <<app, terminal, process>>

\* slip: Down moves past the last branch
NormalDownUnbounded(e) ==
    /\ pc = "loop"
    /\ Acts(e) /\ mode # "ConfirmDelete" /\ IsDownKey(e.code)
    /\ Draw
    /\ event' = e
    /\ selected' = selected + 1
    /\ NoSubprocess
    /\ UNCHANGED <<pc, branches, mode, terminal, res, process>>

\* slip: Down at the last branch wraps to the first
NormalDownWraps(e) ==
    /\ pc = "loop"
    /\ Acts(e) /\ mode # "ConfirmDelete" /\ IsDownKey(e.code)
    /\ Draw
    /\ event' = e
    /\ selected' = IF selected + 1 < Len(branches) THEN selected + 1 ELSE 0
    /\ NoSubprocess
    /\ UNCHANGED <<pc, branches, mode, terminal, res, process>>

\* Normal, Down | 'j'
NormalDown(e) ==
    /\ pc = "loop"
    /\ Acts(e) /\ mode # "ConfirmDelete" /\ IsDownKey(e.code)
    /\ Draw
    /\ event' = e
    /\ selected' = IF selected + 1 < Len(branches) THEN selected + 1 ELSE selected
    /\ NoSubprocess
    /\ UNCHANGED <<pc, branches, mode, terminal, res, process>>

\* Normal, Up | 'k'
NormalUp(e) ==
    /\ pc = "loop"
    /\ Acts(e) /\ mode # "ConfirmDelete" /\ IsUpKey(e.code)
    /\ Draw
    /\ event' = e
    /\ selected' = IF selected > 0 THEN selected - 1 ELSE selected
    /\ NoSubprocess
    /\ UNCHANGED <<pc, branches, mode, terminal, res, process>>

\* slip: Enter selects the first branch
NormalEnterFirst(e) ==
    /\ pc = "loop"
    /\ Acts(e) /\ mode # "ConfirmDelete" /\ IsEnterKey(e.code)
    /\ Draw
    /\ event' = e
    /\ LoopReturns(OkSome(0))
    /\ NoSubprocess
    /\ UNCHANGED <<app, terminal, process>>

\* Normal, Enter
NormalEnter(e) ==
    /\ pc = "loop"
    /\ Acts(e) /\ mode # "ConfirmDelete" /\ IsEnterKey(e.code)
    /\ Draw
    /\ event' = e
    /\ LoopReturns(OkSome(selected))
    /\ NoSubprocess
    /\ UNCHANGED <<app, terminal, process>>

\* slip: 'D' opens the dialog on the current branch too
NormalRequestDeleteUnguarded(e) ==
    /\ pc = "loop"
    /\ Acts(e) /\ mode # "ConfirmDelete" /\ IsDeleteKey(e.code)
    /\ Draw
    /\ event' = e
    /\ mode' = "ConfirmDelete"
    /\ NoSubprocess
    /\ UNCHANGED <<pc, branches, selected, terminal, res, process>>

\* Normal, 'D'
NormalRequestDelete(e) ==
    /\ pc = "loop"
    /\ Acts(e) /\ mode # "ConfirmDelete" /\ IsDeleteKey(e.code)
    /\ Draw
    /\ event' = e
    /\ mode' = IF ~selected_is_current THEN "ConfirmDelete" ELSE mode
    /\ NoSubprocess
    /\ UNCHANGED <<pc, branches, selected, terminal, res, process>>

\* Normal, any other key
NormalOther(e) ==
    /\ pc = "loop"
    /\ Acts(e) /\ mode # "ConfirmDelete"
    /\ ~IsQuitKey(e.code) /\ ~IsDownKey(e.code) /\ ~IsUpKey(e.code)
    /\ ~IsEnterKey(e.code) /\ ~IsDeleteKey(e.code)
    /\ Draw
    /\ event' = e
    /\ NoSubprocess
    /\ UNCHANGED <<pc, app, terminal, res, process>>

(***************************************************************************)
(* main, after the loop: teardown, then the switch or the error report.    *)
(***************************************************************************)
DisableRawMode ==
    /\ pc = "disable_raw"
    /\ \E ok \in BOOLEAN :
        IF ok
        THEN /\ raw_mode' = FALSE
             /\ pc' = "leave_alt"
             /\ UNCHANGED <<exit_code, stderr>>
        ELSE /\ MainReturnsErr("disable_raw_mode")
             /\ UNCHANGED raw_mode
    /\ NoSubprocess
    /\ UNCHANGED <<app, alt_screen, res, switch_log, panicked, event, dialog>>

LeaveAlternateScreen ==
    /\ pc = "leave_alt"
    /\ \E ok \in BOOLEAN :
        IF ok
        THEN /\ alt_screen' = FALSE
             /\ pc' = "show_cursor"
             /\ UNCHANGED <<exit_code, stderr>>
        ELSE /\ MainReturnsErr("LeaveAlternateScreen")
             /\ UNCHANGED alt_screen
    /\ NoSubprocess
    /\ UNCHANGED <<app, raw_mode, res, switch_log, panicked, event, dialog>>

ShowCursor ==
    /\ pc = "show_cursor"
    /\ \E ok \in BOOLEAN :
        IF ok
        THEN /\ pc' = "finish"
             /\ UNCHANGED <<exit_code, stderr>>
        ELSE MainReturnsErr("show_cursor")
    /\ NoSubprocess
    /\ UNCHANGED <<app, terminal, res, switch_log, panicked, event, dialog>>

\* if let Ok(Some(idx)) = res: git switch branches[idx].name
FinishSwitch ==
    /\ pc = "finish"
    /\ res.kind = "ok_some"
    /\ delete_call' = None
    /\ list_call' = None
    /\ list_run' = None
    /\ IF res.idx >= Len(branches)
       THEN /\ Panics("index out of bounds")
            /\ ops' = <<>>
            /\ UNCHANGED switch_log
       ELSE LET name == branches[res.idx + 1].name IN
            /\ ops' = <<[op |-> "switch", name |-> name]>>
            /\ UNCHANGED panicked
            /\ \E status \in SwitchRuns :
                /\ switch_log' = Append(switch_log, [name |-> name, status |-> status])
                /\ IF ~status.spawned THEN MainReturnsErr("spawn git switch")
                   ELSE IF status.code # Some(0)
                   THEN /\ ProcessExit(IF IsSome(status.code) THEN Unwrap(status.code) ELSE 1)
                        /\ UNCHANGED stderr
                   ELSE /\ MainReturnsOk
                        /\ UNCHANGED stderr
    /\ UNCHANGED <<app, terminal, res, event, dialog>>

\* else if let Err(err) = res: report it and exit(1)
FinishError ==
    /\ pc = "finish"
    /\ res.kind = "err"
    /\ stderr' = Append(stderr, <<"error: ", res.err>>)
    /\ ProcessExit(1)
    /\ NoSubprocess
    /\ UNCHANGED <<app, terminal, res, switch_log, panicked, event, dialog>>

\* Ok(None): nothing to do
FinishQuit ==
    /\ pc = "finish"
    /\ res.kind = "ok_none"
    /\ MainReturnsOk
    /\ NoSubprocess
    /\ UNCHANGED <<app, terminal, res, stderr, switch_log, panicked, event, dialog>>

(***************************************************************************)
(* Specification.                                                          *)
(***************************************************************************)
Next ==
    \/ MainLoad
    \/ EnableRawMode
    \/ EnterAlternateScreen
    \/ NewTerminal
    \/ LoopIoError
    \/ LoopTimeout
    \/ LoopNonKey
    \/ \E e \in KeyEvents : LoopRelease(e)
    \/ \E e \in KeyEvents : ConfirmYes(e)
    \/ \E e \in KeyEvents : ConfirmCancel(e)
    \/ \E e \in KeyEvents : ConfirmOther(e)
    \/ \E e \in KeyEvents : NormalQuit(e)
    \/ \E e \in KeyEvents : NormalDown(e)
    \/ \E e \in KeyEvents : NormalUp(e)
    \/ \E e \in KeyEvents : NormalEnter(e)
    \/ \E e \in KeyEvents : NormalRequestDelete(e)
    \/ \E e \in KeyEvents : NormalOther(e)
    \/ DisableRawMode
    \/ LeaveAlternateScreen
    \/ ShowCursor
    \/ FinishSwitch
    \/ FinishError
    \/ FinishQuit

Spec == Init /\ [][Next]_vars

(***************************************************************************)
(* Properties.                                                             *)
(***************************************************************************)
\* the step is a loop cycle that dispatched a key press or repeat
KeyCycle ==
    /\ pc = "loop"
    /\ Acts(event')
    /\ ~(res'.kind = "err" /\ res'.err = "io")

\* the step called delete_branch
DeleteInvoked == IsSome(delete_call')

\* the branch at selected
C1_Selected == branches[selected + 1]

\* C1: while the loop runs, ConfirmDelete implies that the selected branch
\* exists and is not the current branch; 'D' in Normal opens the dialog when
\* the selected branch is not current and changes nothing when it is.
C1_ConfirmDeleteNotCurrent ==
    /\ [](pc = "loop" /\ mode = "ConfirmDelete"
            => selected < Len(branches) /\ ~C1_Selected.is_current)
    /\ [][KeyCycle /\ mode = "Normal" /\ event'.code = "D"
            => /\ pc' = "loop" /\ selected' = selected /\ branches' = branches
               /\ mode' = IF C1_Selected.is_current THEN "Normal" ELSE "ConfirmDelete"]_vars

C1_Witness ==
    /\ pc = "loop" /\ mode = "ConfirmDelete" /\ event.code = "D"
    /\ selected = 1 /\ branches[1].is_current

\* C2: delete_branch is called only in a cycle that received 'y' or 'Y' in
\* ConfirmDelete, and ConfirmDelete is entered only by 'D' in Normal.
C2_DeleteOnlyAfterConfirm ==
    [][/\ DeleteInvoked
          => KeyCycle /\ mode = "ConfirmDelete" /\ event'.code \in {"y", "Y"}
       /\ (mode' = "ConfirmDelete" /\ mode # "ConfirmDelete")
          => KeyCycle /\ mode = "Normal" /\ event'.code = "D"]_vars

C2_Witness ==
    /\ IsSome(delete_call) /\ event.code \in {"y", "Y"}
    /\ ops[1].op = "branch -d"

\* C3: at the start of every loop cycle a non-empty branch list has
\* 0 <= selected < Len(branches).
C3_SelectedInBounds ==
    pc = "loop" /\ branches # <<>> => 0 <= selected /\ selected < Len(branches)

\* a cycle that deleted, reloaded a shorter list and moved the selection to
\* its last entry
C3_Witness ==
    /\ pc = "loop" /\ IsSome(delete_call) /\ IsSome(list_call)
    /\ Len(branches) = 1 /\ selected = 0 /\ event.code = "y"
    /\ dialog # None /\ Unwrap(dialog) # branches[1].name

\* main returned the error of one of the three teardown steps
TeardownErrors == {"disable_raw_mode", "LeaveAlternateScreen", "show_cursor"}
TeardownFailed ==
    /\ pc = "done"
    /\ stderr # <<>>
    /\ stderr[Len(stderr)][1] = "Error: "
    /\ stderr[Len(stderr)][2] \in TeardownErrors

\* C4: whenever a message has been printed, the switch has been run or the
\* exit code has been set, the terminal is out of raw mode and off the
\* alternate screen.
C4_TerminalRestoredOnExit ==
    (pc = "done" \/ stderr # <<>> \/ switch_log # <<>> \/ IsSome(exit_code))
        => ~raw_mode /\ ~alt_screen

\* C5: the exit code is 0 after a quit or a successful switch, the switch's
\* own code when the switch fails with one (1 without a code), 1 after any
\* other fatal error, and nothing else.
C5_ExitCodes ==
    pc = "done" =>
        /\ IsSome(exit_code)
        /\ LET c == Unwrap(exit_code) IN
           IF switch_log # <<>>
           THEN LET st == switch_log[1].status IN
                IF ~st.spawned THEN c = 1
                ELSE IF ~IsSome(st.code) THEN c = 1
                ELSE c = Unwrap(st.code)
           ELSE /\ c \in {0, 1}
                /\ res.kind = "err" => c = 1
                /\ (res.kind = "ok_none" /\ ~TeardownFailed) => c = 0
                /\ (res.kind = "pending" /\ c = 0)
                      => IsSome(list_call) /\ list_call[1].ok
                         /\ list_call[1].branches = <<>>

\* C6 as stated: the switch is run exactly when the loop returned a
\* selection.
C6_SwitchIffEnter ==
    pc = "done" => (switch_log # <<>> <=> res.kind = "ok_some")

\* C6 amended: the switch is run at most once, only after the loop and the
\* teardown, exactly when the loop returned through Enter in Normal and no
\* teardown step failed, with the name of the branch selected at Enter.
C6_SwitchOnceAfterEnter ==
    /\ Len(switch_log) <= 1
    /\ switch_log # <<>> =>
          /\ pc = "done" /\ res.kind = "ok_some"
          /\ ~raw_mode /\ ~alt_screen
          /\ switch_log[1].name = branches[selected + 1].name
    /\ res.kind = "ok_some" =>
          /\ pc # "loop" /\ mode = "Normal"
          /\ Acts(event) /\ event.code = "Enter"
          /\ res.idx = selected /\ selected < Len(branches)
    /\ (pc = "done" /\ res.kind = "ok_some" /\ ~TeardownFailed) => Len(switch_log) = 1
    /\ res.kind \in {"ok_none", "err", "pending"} => switch_log = <<>>

C6_Witness ==
    /\ pc = "done" /\ res.kind = "ok_some" /\ res.idx = 1
    /\ Len(switch_log) = 1 /\ switch_log[1].name = <<"f">>
    /\ exit_code = Some(0)

\* C7: a failed delete sets mode to Normal and ends the loop with an error
\* in the same cycle, without a reload and with branches and selected
\* unchanged; once the loop has returned no cycle runs again; the process
\* exits with a non-zero code.
C7_DeleteFailureIsFatal ==
    /\ [][(DeleteInvoked /\ ~delete_call'[1].ok)
            => /\ mode = "ConfirmDelete" /\ mode' = "Normal"
               /\ pc' = "disable_raw"
               /\ res' = Err("Failed to delete branch")
               /\ branches' = branches /\ selected' = selected
               /\ list_call' = None
               /\ \A i \in 1..Len(ops') : ops'[i].op # "for-each-ref"]_vars
    /\ [][res.kind # "pending"
            => pc' # "loop" /\ event' = event /\ delete_call' = None /\ res' = res]_vars
    /\ []((pc = "done" /\ res = Err("Failed to delete branch"))
            => IsSome(exit_code) /\ Unwrap(exit_code) # 0)

C7_Witness ==
    /\ pc = "done" /\ res = Err("Failed to delete branch")
    /\ exit_code = Some(1) /\ mode = "Normal"
    /\ stderr = << <<"error: ", "Failed to delete branch">> >>

\* the error texts of the model that contain "not fully merged"
C8_UnmergedTexts == {TextUnmerged, NotFullyMerged}

\* C8: the forced delete is attempted exactly when the safe delete failed
\* with "not fully merged" in its error text, at most once; delete_branch
\* succeeds exactly when the safe delete or the forced retry succeeded.
C8_ForcedDeleteOnlyWhenUnmerged ==
    IsSome(delete_call) =>
        LET c       == delete_call[1]
            safeOk  == c.safe.spawned /\ c.safe.success
            forced  == {i \in 1..Len(ops) : ops[i].op = "branch -D"}
            forceOk == IsSome(c.force) /\ c.force[1].spawned /\ c.force[1].success
        IN  /\ ops[1] = [op |-> "branch -d", name |-> c.name]
            /\ Cardinality(forced) <= 1
            /\ IsSome(c.force) <=> forced # {}
            /\ forced # {} <=> (c.safe.spawned /\ ~c.safe.success
                                  /\ c.safe.stderr \in C8_UnmergedTexts)
            /\ c.ok <=> (safeOk \/ forceOk)
            /\ \A i \in forced : ops[i].name = c.name

C8_Witness ==
    /\ IsSome(delete_call)
    /\ delete_call[1].safe.stderr = TextUnmerged
    /\ IsSome(delete_call[1].force) /\ delete_call[1].ok
    /\ Len(ops) = 3

\* C9: after a successful delete whose reload is empty the loop returns
\* "no selection", whatever selected was; the process then exits with 0
\* and runs no switch.
C9_EmptyReloadQuits ==
    /\ (IsSome(delete_call) /\ IsSome(list_call) /\ list_call[1].ok
          /\ list_call[1].branches = <<>>)
         => res = OkNone /\ ~panicked /\ pc = "disable_raw"
    /\ (pc = "done" /\ res = OkNone /\ ~TeardownFailed)
         => exit_code = Some(0) /\ switch_log = <<>>

\* the step reloaded the list after a successful delete
ReloadStep ==
    DeleteInvoked /\ IsSome(list_call') /\ list_call'[1].ok

\* C10 as stated: selected is kept when still valid, becomes
\* newLength - 1 when it was the old last index and the list is shorter,
\* and a non-empty reload returns to Normal with the Lister's list.
C10_ReloadAdjustsSelection ==
    [][ReloadStep =>
         LET new == list_call'[1].branches IN
         /\ selected < Len(new) => selected' = selected
         /\ (selected = Len(branches) - 1 /\ Len(new) < Len(branches))
               => selected' = Len(new) - 1
         /\ new # <<>> => mode' = "Normal" /\ branches' = new /\ pc' = "loop"]_vars

\* C10 amended: the second case holds when the shorter list is non-empty.
C10_ReloadAdjustsSelectionNonEmpty ==
    [][ReloadStep =>
         LET new == list_call'[1].branches IN
         /\ selected < Len(new) => selected' = selected
         /\ (selected = Len(branches) - 1 /\ Len(new) < Len(branches) /\ new # <<>>)
               => selected' = Len(new) - 1
         /\ new # <<>> => mode' = "Normal" /\ branches' = new /\ pc' = "loop"]_vars

C10_Witness ==
    /\ pc = "loop" /\ mode = "Normal"
    /\ IsSome(delete_call) /\ delete_call[1].ok
    /\ IsSome(list_call) /\ list_call[1].branches = branches
    /\ Len(branches) = 2 /\ selected = 1
    /\ dialog = Some(<<"f">>) /\ branches[2].name = <<"m">>

\* the step started no subprocess and left the loop running
QuietCycle ==
    /\ pc' = "loop" /\ res' = res
    /\ ops' = <<>> /\ delete_call' = None /\ list_call' = None
    /\ switch_log' = switch_log /\ exit_code' = exit_code

\* C11: in Normal, Down | 'j' moves selected to min(selected + 1, last) and
\* Up | 'k' to max(selected - 1, 0), without wraparound; navigation changes
\* neither mode nor branches and does not end the loop.
C11_NavigationClamps ==
    [][(KeyCycle /\ mode = "Normal"
          /\ event'.code \in {"j", "Down", "k", "Up"})
         => /\ QuietCycle /\ mode' = mode /\ branches' = branches
            /\ LET last == Len(branches) - 1 IN
               IF event'.code \in {"j", "Down"}
               THEN selected' = IF selected + 1 <= last THEN selected + 1 ELSE last
               ELSE selected' = IF selected - 1 >= 0 THEN selected - 1 ELSE 0]_vars

\* Down pressed again on the last of three branches
C11_Witness ==
    /\ pc = "loop" /\ mode = "Normal" /\ event.code = "Down"
    /\ Len(branches) = 3 /\ selected = 2

\* C12: in ConfirmDelete, 'n' | 'N' | Esc sets mode to Normal and nothing
\* else: branches and selected are kept, no subprocess is started and the
\* loop keeps running.
C12_CancelOnlyClosesDialog ==
    [][(KeyCycle /\ mode = "ConfirmDelete" /\ event'.code \in {"n", "N", "Esc"})
         => /\ QuietCycle /\ mode' = "Normal"
            /\ branches' = branches /\ selected' = selected]_vars

C12_Witness ==
    /\ pc = "loop" /\ mode = "Normal" /\ event.code = "Esc"
    /\ dialog = Some(<<"f">>) /\ selected = 1

\* C13: a key that the current mode does not map changes nothing: in
\* ConfirmDelete the navigation keys, Enter, 'q', 'D' and 'd'; in Normal
\* 'y', 'Y', 'n', 'N' and 'd'.
C13_UnmappedKeysIgnored ==
    [][(KeyCycle /\
          \/ mode = "ConfirmDelete"
             /\ event'.code \in {"j", "k", "Down", "Up", "Enter", "q", "D", "d"}
          \/ mode = "Normal" /\ event'.code \in {"y", "Y", "n", "N", "d"})
         => QuietCycle /\ UNCHANGED app]_vars

C13_Witness ==
    /\ pc = "loop" /\ mode = "ConfirmDelete" /\ event.code = "q"
    /\ Acts(event) /\ dialog = Some(<<"f">>)

\* the initial load returned an empty list
InitialListEmpty ==
    /\ IsSome(list_call) /\ ~IsSome(delete_call)
    /\ list_call[1].ok /\ list_call[1].branches = <<>>

\* C14: with an empty initial list the process prints "no local branches
\* found" and exits with 0 straight from the load: no raw mode, no alternate
\* screen, no event read, no switch and no delete.
C14_EmptyInitialListExits ==
    /\ [](InitialListEmpty
            => /\ pc = "done" /\ exit_code = Some(0)
               /\ stderr = << <<"no local branches found">> >>
               /\ ~raw_mode /\ ~alt_screen
               /\ event = NoEvent /\ dialog = None /\ res = Pending
               /\ switch_log = <<>> /\ ops = <<ListOp>>)
    /\ [][InitialListEmpty' => pc = "load" /\ pc' = "done"]_vars
    /\ [][pc = "done" => pc' = "done"]_vars

C14_Witness ==
    /\ InitialListEmpty /\ pc = "done" /\ exit_code = Some(0)
    /\ IsSome(list_run) /\ list_run[1].stdout = <<>>

\* The lines and fields of a text, by the positions of its separators.
C15_Positions(t, c) == {i \in 1..Len(t) : t[i] = c}
C15_Nth(S, k) == CHOOSE p \in S : Cardinality({q \in S : q <= p}) = k

\* the k-th of the pieces that separator c cuts t into; <<>> past the last
C15_Piece(t, c, k) ==
    LET at == C15_Positions(t, c)
        n  == Cardinality(at)
    IN  IF k > n + 1 THEN <<>>
        ELSE SubSeq(t, IF k = 1 THEN 1 ELSE C15_Nth(at, k - 1) + 1,
                       IF k <= n THEN C15_Nth(at, k) - 1 ELSE Len(t))

\* the lines of t: the pieces between newlines, without the empty piece
\* after a final newline
C15_LineCount(t) ==
    Cardinality(C15_Positions(t, "\n"))
      + (IF Len(t) > 0 /\ t[Len(t)] # "\n" THEN 1 ELSE 0)

\* the branches parsed are the lines numbered by kept, in order, each with
\* its first three fields
C15_ParsedAre(t, kept, bs) ==
    /\ Len(bs) = Cardinality(kept)
    /\ \A n \in 1..Len(bs) :
         LET l == C15_Piece(t, "\n", C15_Nth(kept, n)) IN
         /\ bs[n].name = C15_Piece(l, "|", 1)
         /\ bs[n].short_sha = C15_Piece(l, "|", 2)
         /\ bs[n].is_current = (C15_Piece(l, "|", 3) = <<"*">>)

\* C15 as stated: the parser succeeds and yields one branch for every
\* non-empty line, in order, with the line's first three fields.
C15_OneBranchPerNonEmptyLine ==
    IsSome(list_run) =>
        LET t    == list_run[1].stdout
            kept == {k \in 1..C15_LineCount(t) : C15_Piece(t, "\n", k) # <<>>}
        IN  list_call[1].ok /\ C15_ParsedAre(t, kept, list_call[1].branches)

\* C15 amended: one branch for every line that holds a character other than
\* white space.
C15_OneBranchPerNonBlankLine ==
    IsSome(list_run) =>
        LET t    == list_run[1].stdout
            kept == {k \in 1..C15_LineCount(t) :
                       \E i \in 1..Len(C15_Piece(t, "\n", k)) :
                           C15_Piece(t, "\n", k)[i] # " "}
        IN  list_call[1].ok /\ C15_ParsedAre(t, kept, list_call[1].branches)

\* two lines, the first with the head marker, the second without fields
C15_Witness ==
    /\ IsSome(list_run) /\ list_run[1].stdout = <<"|", "|", "*", "\n", "m">>
    /\ Len(list_call[1].branches) = 2
    /\ list_call[1].branches[1].is_current
    /\ ~list_call[1].branches[2].is_current

\* the step is a loop cycle that ended with one of draw, poll, read failing
IoErrorCycle == pc = "loop" /\ res'.kind = "err" /\ res'.err = "io"

C17_ListRuns == Cardinality({i \in 1..Len(ops') : ops'[i].op = "for-each-ref"})

\* C17: during the session branches changes only by being replaced with
\* the Lister's result right after a successful delete; the Lister runs
\* once per successful delete and in no other cycle; a failed delete leaves
\* branches and selected as they are.
C17_BranchesOnlyReplacedOnReload ==
    [][pc = "loop" =>
         /\ branches' # branches
              => ReloadStep /\ branches' = list_call'[1].branches
         /\ (DeleteInvoked /\ delete_call'[1].ok)
              => /\ C17_ListRuns = 1 /\ ops'[Len(ops')].op = "for-each-ref"
                 /\ IsSome(list_call')
                 /\ list_call'[1].ok => branches' = list_call'[1].branches
                 /\ ~list_call'[1].ok => branches' = branches
         /\ ~(DeleteInvoked /\ delete_call'[1].ok)
              => C17_ListRuns = 0 /\ list_call' = None /\ branches' = branches
         /\ (DeleteInvoked /\ ~delete_call'[1].ok) => selected' = selected]_vars

\* a reload that returned three branches after the delete of one of two
C17_Witness ==
    /\ pc = "loop" /\ IsSome(delete_call) /\ delete_call[1].ok
    /\ IsSome(list_call) /\ branches = list_call[1].branches
    /\ Len(branches) = 3 /\ ops[Len(ops)].op = "for-each-ref"

\* C18: delete_branch gets the name of the selected branch, which is the
\* name in the dialog drawn in that cycle and is not current; while the
\* dialog stays open neither selected nor branches changes.
C18_DeletesTheConfirmedBranch ==
    /\ [][DeleteInvoked
            => /\ selected < Len(branches)
               /\ delete_call'[1].name = C1_Selected.name
               /\ ~C1_Selected.is_current
               /\ dialog' = Some(delete_call'[1].name)
               /\ \A i \in 1..Len(ops') :
                    ops'[i].op # "for-each-ref" => ops'[i].name = C1_Selected.name]_vars
    /\ [][(mode # "ConfirmDelete" /\ mode' = "ConfirmDelete")
            => /\ KeyCycle /\ event'.code = "D"
               /\ selected' = selected /\ branches' = branches
               /\ ~C1_Selected.is_current]_vars
    /\ [][(mode = "ConfirmDelete" /\ mode' = "ConfirmDelete" /\ pc' = "loop")
            => selected' = selected /\ branches' = branches]_vars
    /\ [][(pc = "loop" /\ mode = "ConfirmDelete" /\ pc' = "loop")
            => dialog' = Some(C1_Selected.name)]_vars

C18_Witness ==
    /\ IsSome(delete_call) /\ delete_call[1].name = <<"f">>
    /\ dialog = Some(<<"f">>) /\ delete_call[1].ok
    /\ pc = "loop" /\ Len(branches) = 1 /\ branches[1].is_current

\* C19: whenever the loop has returned Some(idx), idx is an index of
\* branches and mode is Normal, so branches[idx] before the switch is in
\* bounds.
C19_SelectionIsValidIndex ==
    res.kind = "ok_some"
        => /\ 0 <= res.idx /\ res.idx < Len(branches)
           /\ mode = "Normal"
           /\ ~panicked

\* Enter on the third branch, ready for the switch
C19_Witness ==
    /\ pc = "finish" /\ res.kind = "ok_some" /\ res.idx = 2
    /\ Len(branches) = 3

\* an Esc press or repeat that the loop dispatches
C20_EscStep ==
    \E e \in KeyEvents :
        /\ e.code = "Esc" /\ e.kind # "Release"
        /\ ConfirmCancel(e) \/ NormalQuit(e)

\* C20: in every state of the running loop an Esc press is handled: in
\* ConfirmDelete it returns to Normal with the loop running, in Normal it
\* ends the loop with "no selection"; neither starts a subprocess, so two
\* Esc presses in a row always quit.
C20_EscEscQuits ==
    /\ [](pc = "loop" => mode \in {"Normal", "ConfirmDelete"} /\ ENABLED C20_EscStep)
    /\ [][(KeyCycle /\ event'.code = "Esc" /\ mode = "ConfirmDelete")
            => QuietCycle /\ mode' = "Normal"
               /\ branches' = branches /\ selected' = selected]_vars
    /\ [][(KeyCycle /\ event'.code = "Esc" /\ mode = "Normal")
            => /\ pc' = "disable_raw" /\ res' = OkNone
               /\ ops' = <<>> /\ delete_call' = None /\ list_call' = None
               /\ switch_log' = switch_log /\ UNCHANGED app]_vars

C20_Witness ==
    /\ pc = "disable_raw" /\ res = OkNone /\ event.code = "Esc"
    /\ mode = "Normal" /\ dialog = None /\ selected = 1

====
